---- MODULE Spec2Model ----
(***************************************************************************)
(* Model of the Peregrine parser (src/Peregrine/parser/parser.py) over the *)
(* token vocabulary of src/Peregrine/lexer/tokens.py and the node classes  *)
(* of src/Peregrine/parser/ast.py.                                         *)
(*                                                                         *)
(* A Python exception is modelled as a result whose `crash` field names    *)
(* the exception; the parser object keeps the cursor it had when the       *)
(* exception was raised.  Python's 0-based tokens[i] is toks[i + 1] here.  *)
(***************************************************************************)
EXTENDS Integers, Sequences, FiniteSets, TLC

VARIABLES tokens, tk_index, current_token, errors, Program_nodes,
          status, crash, run, parsed, result, call

vars == <<tokens, tk_index, current_token, errors, Program_nodes,
          status, crash, run, parsed, result, call>>

(***************************************************************************)
(* Bounds of the model.                                                    *)
(***************************************************************************)
\* longest token sequence handed to a Parser that runs parse()
MaxLen == 4
\* longest token sequence handed to a Parser whose parseExpression is called
MaxExprLen == 5
\* number of Parser objects constructed one after another in one process
MaxRuns == 2
\* the interpreter's limit on nested calls (1000 in CPython), scaled down;
\* no terminating parse of a sequence within the bounds nests this deep
RecursionLimit == 16

(***************************************************************************)
(* Precedence (IntEnum with auto(): 1, 2, ...) and precedenceMap.          *)
(***************************************************************************)
pr_lowest == 1
pr_and == 2
pr_not == 3
pr_equal == 4
pr_sum == 5
pr_mul == 6
pr_prefix == 7

precedenceMap ==
    [t \in {"tk_and", "tk_or", "tk_not", "tk_equal", "tk_not_equal",
            "tk_greater", "tk_less", "tk_gr_or_equ", "tk_less_or_equ",
            "tk_plus", "tk_minus", "tk_asterisk", "tk_divide"} |->
        CASE t \in {"tk_and", "tk_or"} -> pr_and
          [] t = "tk_not" -> pr_not
          [] t \in {"tk_equal", "tk_not_equal", "tk_greater", "tk_less",
                    "tk_gr_or_equ", "tk_less_or_equ"} -> pr_equal
          [] t \in {"tk_plus", "tk_minus"} -> pr_sum
          [] t \in {"tk_asterisk", "tk_divide"} -> pr_mul]

LangTypes == {"tk_str", "tk_bool", "tk_char", "tk_float", "tk_float32",
              "tk_void", "tk_int", "tk_int32", "tk_int16", "tk_int8",
              "tk_uint32", "tk_uint16", "tk_uint8", "tk_uint"}

(***************************************************************************)
(* Tokens.  A Token is its tk_type and its keyword (the lexeme); index,    *)
(* line and tab are read only by Parser.error, which nothing calls.        *)
(***************************************************************************)
\* Python's None where a Token is expected (Parser.nextToken at the end)
None == [tk_type |-> "None", keyword |-> "None"]
\* the instance attribute current_token before any advance has set it
Unset == [tk_type |-> "unset", keyword |-> "unset"]

IdentNames == <<"a", "b", "c", "d", "e", "f", "g", "h", "i", "j">>

\* the lexeme of the token of type `kind` at position i of the sequence:
\* operators and keywords have their fixed text, identifiers and literals a
\* text of their own, distinct at each position (parseExpression reads a
\* tk_int token as an integer literal, so its keyword is a numeral)
Lexeme(kind, i) ==
    CASE kind = "tk_identifier" -> IdentNames[i]
      [] kind \in {"tk_int", "integer"} -> ToString(i)
      [] kind = "tk_plus" -> "+"
      [] kind = "tk_minus" -> "-"
      [] kind = "tk_asterisk" -> "*"
      [] kind = "tk_divide" -> "/"
      [] kind = "tk_assign" -> "="
      [] kind = "tk_l_paren" -> "("
      [] kind = "tk_r_paren" -> ")"
      [] kind = "tk_and" -> "and"
      [] kind = "tk_equal" -> "=="
      [] kind = "tk_if" -> "if"
      [] kind = "tk_def" -> "def"
      [] OTHER -> kind

Token(kind, i) == [tk_type |-> kind, keyword |-> Lexeme(kind, i)]

\* the token sequence whose tokens have the types ks, in this order
Lex(ks) == [i \in 1..Len(ks) |-> Token(ks[i], i)]

\* token types of the sequences given to a Parser that runs parse()
StmtKinds == {"tk_identifier", "tk_int", "tk_assign", "tk_plus", "tk_minus",
              "tk_l_paren", "tk_r_paren", "tk_if", "integer"}
\* token types of the sequences given to a Parser whose parseExpression runs
ExprKinds == {"tk_identifier", "tk_int", "tk_plus", "tk_minus",
              "tk_asterisk", "tk_and", "tk_l_paren", "tk_r_paren"}

(***************************************************************************)
(* AST nodes (ast.py) and their rendering.                                 *)
(***************************************************************************)
\* Python's None where a Node is expected
NoNode == <<"None">>
\* the local variable `left` of parseExpression before any assignment
Unbound == <<"Unbound">>

IntegerLiteral(value) == <<"IntegerLiteral", value>>
StringLiteral(value) == <<"StringLiteral", value>>
BoolLiteral(value) == <<"BoolLiteral", value>>
Identifier(value) == <<"Identifier", value>>
BinaryOperation(left, operator, right) == <<"BinaryOperation", left, operator, right>>
PrefixExpression(prefix, value) == <<"PrefixExpression", prefix, value>>

\* __str__, as the sequence of the pieces the f-strings join
RECURSIVE Render(_)
Render(node) ==
    CASE node[1] \in {"IntegerLiteral", "StringLiteral", "Identifier"} -> <<node[2]>>
      [] node[1] = "BoolLiteral" -> <<IF node[2] THEN "true" ELSE "false">>
      [] node[1] = "BinaryOperation" ->
            <<"(">> \o Render(node[2]) \o <<node[3]>> \o Render(node[4]) \o <<")">>
      [] node[1] = "PrefixExpression" ->
            <<"(", node[2]>> \o Render(node[3]) \o <<")">>

(***************************************************************************)
(* Results of the parser's methods: the node returned, the cursor the      *)
(* Parser is left with, and the exception raised, if any.                  *)
(***************************************************************************)
Cursor(i, t) == [tk_index |-> i, current_token |-> t]
Ok(node, p) == [node |-> node, p |-> p, crash |-> "none"]
Raise(exc, p) == [node |-> NoNode, p |-> p, crash |-> exc]

(***************************************************************************)
(* Cursor operations of Parser.                                            *)
(***************************************************************************)
\* an advance without the guard at the end of the sequence
Advance_Unguarded(toks, p) ==
    Cursor(p.tk_index + 1,
           IF p.tk_index < Len(toks) THEN toks[p.tk_index + 1] ELSE p.current_token)

Advance(toks, p) ==
    IF p.tk_index >= Len(toks)
    THEN p
    ELSE Cursor(p.tk_index + 1, toks[p.tk_index + 1])

NextToken(toks, p) ==
    IF p.tk_index < Len(toks) THEN toks[p.tk_index + 1] ELSE None

\* nextToken().tk_type raises on None; a mismatch is `pass`, and the cursor
\* advances either way
Expect(toks, p, tokenType) ==
    LET n == NextToken(toks, p) IN
    IF n = None
    THEN Raise("AttributeError: NoneType.tk_type", p)
    ELSE IF n.tk_type # tokenType
         THEN Ok(NoNode, Advance(toks, p))
         ELSE Ok(NoNode, Advance(toks, p))

NextPrecedence(toks, p) ==
    LET n == NextToken(toks, p) IN
    IF n # None /\ n.tk_type \in DOMAIN precedenceMap
    THEN precedenceMap[n.tk_type]
    ELSE pr_lowest

(***************************************************************************)
(* The expression engine.  `depth` is the number of nested parse calls.    *)
(***************************************************************************)
RECURSIVE ParseExpression(_, _, _, _)
RECURSIVE ExprLoop(_, _, _, _, _)
RECURSIVE ParseBinaryOperation(_, _, _, _)
RECURSIVE ParsePrefixExpression(_, _, _)
RECURSIVE ParseGroupedExpression(_, _, _)

\* the one element of a singleton set: { e(r) : r \in {call} } evaluates the
\* call once, as the code makes it once
The(S) == CHOOSE x \in S : TRUE

ParseInteger(p) == IntegerLiteral(p.current_token.keyword)
ParseString(p) == StringLiteral(p.current_token.keyword)
ParseBool(p) == BoolLiteral(p.current_token.tk_type = "tk_true")
ParseIdentifier(p) == Identifier(p.current_token.keyword)

\* a parseBinaryOperation that parses its right operand at the lowest
\* precedence instead of the operator's own
ParseBinaryOperation_LowestRight(toks, p, left, depth) ==
    LET operator == p.current_token.keyword
    IN The({ IF right.crash # "none"
             THEN right
             ELSE Ok(BinaryOperation(left, operator, right.node), right.p) :
             right \in {ParseExpression(toks, Advance(toks, p), pr_lowest, depth + 1)} })

ParseBinaryOperation(toks, p, left, depth) ==
    LET currentPrecedence == precedenceMap[p.current_token.tk_type]
        operator == p.current_token.keyword
    IN The({ IF right.crash # "none"
             THEN right
             ELSE Ok(BinaryOperation(left, operator, right.node), right.p) :
             right \in {ParseExpression(toks, Advance(toks, p), currentPrecedence, depth + 1)} })

ParsePrefixExpression(toks, p, depth) ==
    LET prefix == p.current_token.keyword
    IN The({ IF right.crash # "none"
             THEN right
             ELSE Ok(PrefixExpression(prefix, right.node), right.p) :
             right \in {ParseExpression(toks, Advance(toks, p), pr_prefix, depth + 1)} })

ParseGroupedExpression(toks, p, depth) ==
    The({ IF node.crash # "none"
          THEN node
          ELSE LET e == Expect(toks, node.p, "tk_r_paren") IN
               IF e.crash # "none" THEN e ELSE Ok(node.node, e.p) :
          node \in {ParseExpression(toks, Advance(toks, p), pr_lowest, depth + 1)} })

\* the while loop of parseExpression; reading the unassigned `left`, as the
\* argument of parseBinaryOperation or in `return left`, raises
ExprLoop(toks, p, left, precedence, depth) ==
    IF NextPrecedence(toks, p) > precedence
    THEN LET p1 == Advance(toks, p) IN
         The({ IF b.crash # "none"
               THEN b
               ELSE ExprLoop(toks, b.p, b.node, precedence, depth) :
               b \in {IF left = Unbound
                      THEN Raise("UnboundLocalError: left", p1)
                      ELSE ParseBinaryOperation(toks, p1, left, depth + 1)} })
    ELSE IF left = Unbound
         THEN Raise("UnboundLocalError: left", p)
         ELSE Ok(left, p)

ParseExpression(toks, p, precedence, depth) ==
    IF depth > RecursionLimit
    THEN Raise("RecursionError", p)
    ELSE IF p.current_token = Unset
    THEN Raise("AttributeError: Parser.current_token", p)
    ELSE LET t == p.current_token.tk_type IN
         The({ IF left.crash # "none"
               THEN left
               ELSE ExprLoop(toks, left.p, left.node, precedence, depth) :
               left \in {CASE t = "tk_int" -> Ok(ParseInteger(p), p)
                           [] t = "tk_str" -> Ok(ParseString(p), p)
                           [] t = "tk_bool" -> Ok(ParseBool(p), p)
                           [] t = "tk_identifier" -> Ok(ParseIdentifier(p), p)
                           [] t = "tk_l_paren" -> ParseGroupedExpression(toks, p, depth + 1)
                           [] t = "tk_minus" -> ParsePrefixExpression(toks, p, depth + 1)
                           [] OTHER -> Ok(Unbound, p)} })

(***************************************************************************)
(* Statements.                                                             *)
(***************************************************************************)
\* Precedence.pr_lowestr is no member of Precedence: evaluating the
\* argument raises after both advances
ParseVariableReassignment(toks, p, depth) ==
    LET identifier == p.current_token.keyword
        p2 == Advance(toks, Advance(toks, p))
    IN Raise("AttributeError: Precedence.pr_lowestr", p2)

\* ast.py defines no VariableDeclaration: both constructions raise
ParseVariableDeclaration(toks, p, depth) ==
    LET varType == p.current_token
        e == Expect(toks, p, "tk_identifier")
    IN IF e.crash # "none"
       THEN e
       ELSE LET name == e.p.current_token.keyword
                n == NextToken(toks, e.p)
            IN IF n # None /\ n.tk_type # "tk_assign"
               THEN Raise("AttributeError: ast.VariableDeclaration(varType, name)", e.p)
               ELSE The({ IF value.crash # "none"
                          THEN value
                          ELSE Raise("AttributeError: ast.VariableDeclaration(varType, name, value)",
                                     value.p) :
                          value \in {ParseExpression(toks, Advance(toks, Advance(toks, e.p)),
                                                     pr_lowest, depth + 1)} })

\* the bodies are `pass`: the call returns None
ParseIf(p) == Ok(NoNode, p)
ParseWhile(p) == Ok(NoNode, p)
ParseFor(p) == Ok(NoNode, p)
ParseMatch(p) == Ok(NoNode, p)
ParseFunctionDeclaration(p) == Ok(NoNode, p)

\* TokenType has no member tk_ccode (tokens.py names it tk_cppcode): a
\* current token that matched no earlier branch raises at that comparison,
\* so the final else branch is never taken
ParseStatement(toks, p, depth) ==
    LET t == p.current_token.tk_type IN
    CASE t = "tk_identifier" ->
            LET n == NextToken(toks, p) IN
            The({ IF newNode.crash # "none"
                  THEN newNode
                  ELSE ParseVariableReassignment(toks, newNode.p, depth + 1) :
                  newNode \in {IF n # None /\ n.tk_type # "tk_assign"
                               THEN ParseExpression(toks, p, pr_lowest, depth + 1)
                               ELSE Ok(Unbound, p)} })
      [] t \in LangTypes -> ParseVariableDeclaration(toks, p, depth + 1)
      [] t = "tk_if" -> ParseIf(p)
      [] t = "tk_while" -> ParseWhile(p)
      [] t = "tk_for" -> ParseFor(p)
      [] t = "tk_match" -> ParseMatch(p)
      [] t = "tk_def" -> ParseFunctionDeclaration(p)
      [] OTHER -> Raise("AttributeError: TokenType.tk_ccode", p)

(***************************************************************************)
(* State.  errors and Program_nodes are the lists of the class attributes  *)
(* Parser.errors and Program.nodes: one list each for the whole process.   *)
(* status: "idle" (no Parser yet), "ready" (a Parser is constructed, or    *)
(* parse() is between two iterations), "returned", "exited" (exit(1)),     *)
(* "crashed" (an exception left the call).  parsed lists what the current  *)
(* Parser's parse() appended; result is the value of the last direct call; *)
(* call names the last operation with the cursor it started from.          *)
(***************************************************************************)
Here(op, arg) ==
    [op |-> op, arg |-> arg, before |-> Cursor(tk_index, current_token)]

Init ==
    /\ tokens = <<>>
    /\ tk_index = 0
    /\ current_token = Unset
    /\ errors = <<>>
    /\ Program_nodes = <<>>
    /\ status = "idle"
    /\ crash = "none"
    /\ run = 0
    /\ parsed = <<>>
    /\ result = NoNode
    /\ call = [op |-> "none", arg |-> 0, before |-> Cursor(0, Unset)]

\* Parser(filename, tokens): tk_index starts from the class attribute 0
Construct(toks) ==
    LET p == Advance(toks, Cursor(0, Unset)) IN
    /\ tokens' = toks
    /\ tk_index' = p.tk_index
    /\ current_token' = p.current_token
    /\ status' = "ready"
    /\ crash' = "none"
    /\ run' = run + 1
    /\ parsed' = <<>>
    /\ result' = NoNode
    /\ call' = [op |-> "__init__", arg |-> 0, before |-> Cursor(0, Unset)]
    /\ UNCHANGED <<errors, Program_nodes>>

\* a Parser is constructed before any other, or after one has returned
CanConstruct == status \in {"idle", "returned"} /\ run < MaxRuns

NewParser ==
    /\ CanConstruct
    /\ \E m \in 0..MaxLen : \E ks \in [1..m -> StmtKinds] : Construct(Lex(ks))

NewExprParser ==
    /\ CanConstruct
    /\ \E m \in 0..MaxExprLen : \E ks \in [1..m -> ExprKinds] : Construct(Lex(ks))

\* one iteration of the while loop of parse()
ParseIteration ==
    /\ status = "ready"
    /\ tk_index < Len(tokens)
    /\ \E r \in {ParseStatement(tokens, Cursor(tk_index, current_token), 2)} :
       IF r.crash # "none"
       THEN /\ status' = "crashed"
            /\ crash' = r.crash
            /\ tk_index' = r.p.tk_index
            /\ current_token' = r.p.current_token
            /\ UNCHANGED <<Program_nodes, parsed>>
       ELSE LET p == Advance(tokens, r.p) IN
            /\ Program_nodes' = Append(Program_nodes, r.node)
            /\ parsed' = Append(parsed, r.node)
            /\ tk_index' = p.tk_index
            /\ current_token' = p.current_token
            /\ UNCHANGED <<status, crash>>
    /\ call' = Here("parse.iteration", 0)
    /\ UNCHANGED <<tokens, errors, run, result>>

\* the end of parse(): exit(1) if errors is not empty, else the Program
ParseReturn ==
    /\ status = "ready"
    /\ tk_index >= Len(tokens)
    /\ status' = IF Len(errors) > 0 THEN "exited" ELSE "returned"
    /\ call' = Here("parse.return", 0)
    /\ UNCHANGED <<tokens, tk_index, current_token, errors, Program_nodes,
                   crash, run, parsed, result>>

Next == NewParser \/ ParseIteration \/ ParseReturn

Spec == Init /\ [][Next]_vars

(***************************************************************************)
(* Direct calls of single methods on a constructed Parser.                 *)
(***************************************************************************)
Returned(r, op, arg) ==
    /\ tk_index' = r.p.tk_index
    /\ current_token' = r.p.current_token
    /\ status' = IF r.crash # "none" THEN "crashed" ELSE "ready"
    /\ crash' = r.crash
    /\ result' = r.node
    /\ call' = Here(op, arg)
    /\ UNCHANGED <<tokens, errors, Program_nodes, run, parsed>>

Precedences == pr_lowest..pr_prefix

CallParseExpression ==
    /\ status = "ready"
    /\ call.op = "__init__"
    /\ \E precedence \in Precedences :
          Returned(ParseExpression(tokens, Cursor(tk_index, current_token), precedence, 1),
                   "parseExpression", precedence)

CallAdvance ==
    /\ status = "ready"
    /\ Returned(Ok(NoNode, Advance(tokens, Cursor(tk_index, current_token))), "advance", 0)

CallExpect ==
    /\ status = "ready"
    /\ \E tokenType \in {"tk_identifier", "tk_r_paren"} :
          Returned(Expect(tokens, Cursor(tk_index, current_token), tokenType),
                   "expect", tokenType)

CallParseStatement ==
    /\ status = "ready"
    /\ current_token # Unset
    /\ Returned(ParseStatement(tokens, Cursor(tk_index, current_token), 1),
                "parseStatement", 0)

\* parseExpression called on a freshly constructed Parser
NextExpr == NewExprParser \/ CallParseExpression

SpecExpr == Init /\ [][NextExpr]_vars

\* the cursor driven method by method
NextCursor ==
    NewParser \/ CallAdvance \/ CallExpect \/ CallParseStatement \/ ParseIteration

SpecCursor == Init /\ [][NextCursor]_vars

(***************************************************************************)
(* The node shapes the parser refers to and ast.py does not define.        *)
(***************************************************************************)
VariableDeclaration(varType, name, value) == <<"VariableDeclaration", varType, name, value>>

(***************************************************************************)
(* Properties.                                                             *)
(***************************************************************************)
IsPrimary(t) == t.tk_type \in {"tk_int", "tk_str", "tk_bool", "tk_identifier"}
IsOperator(t) == t.tk_type \in DOMAIN precedenceMap
\* the literal or identifier node of a one-token primary
PrimaryNode(t) ==
    CASE t.tk_type = "tk_int" -> IntegerLiteral(t.keyword)
      [] t.tk_type = "tk_str" -> StringLiteral(t.keyword)
      [] t.tk_type = "tk_bool" -> BoolLiteral(FALSE)
      [] t.tk_type = "tk_identifier" -> Identifier(t.keyword)
\* the last step was the first iteration of parse()
FirstIteration == call.op = "parse.iteration" /\ call.before.tk_index = 1
Ended == status \in {"returned", "exited", "crashed"}

\* tokens are `a op1 b op2 c` and parseExpression(pr_lowest) has been called
\* on the freshly constructed Parser
BindingCase ==
    /\ call.op = "parseExpression"
    /\ call.arg = pr_lowest
    /\ Len(tokens) = 5
    /\ IsPrimary(tokens[1]) /\ IsOperator(tokens[2]) /\ IsPrimary(tokens[3])
    /\ IsOperator(tokens[4]) /\ IsPrimary(tokens[5])

\* C1: for tokens `a op1 b op2 c` (a, b, c one-token primaries, op1, op2 in
\* precedenceMap) parseExpression(pr_lowest) returns a op1 (b op2 c) when
\* precedence(op2) > precedence(op1) and (a op1 b) op2 c otherwise, and the
\* node renders with the matching parentheses.
C1_BindingLaw ==
    BindingCase =>
        LET a == PrimaryNode(tokens[1])
            b == PrimaryNode(tokens[3])
            c == PrimaryNode(tokens[5])
            op1 == tokens[2].keyword
            op2 == tokens[4].keyword
            ka == tokens[1].keyword
            kb == tokens[3].keyword
            kc == tokens[5].keyword
        IN /\ status = "ready"
           /\ IF precedenceMap[tokens[4].tk_type] > precedenceMap[tokens[2].tk_type]
              THEN /\ result = BinaryOperation(a, op1, BinaryOperation(b, op2, c))
                   /\ Render(result) = <<"(", ka, op1, "(", kb, op2, kc, ")", ")">>
              ELSE /\ result = BinaryOperation(BinaryOperation(a, op1, b), op2, c)
                   /\ Render(result) = <<"(", "(", ka, op1, kb, ")", op2, kc, ")">>

\* `1 + 3 * 5` has been parsed into (1 + (3 * 5))
C1_Witness ==
    /\ BindingCase
    /\ <<tokens[1].tk_type, tokens[2].tk_type, tokens[3].tk_type,
         tokens[4].tk_type, tokens[5].tk_type>>
         = <<"tk_int", "tk_plus", "tk_int", "tk_asterisk", "tk_int">>
    /\ Render(result) = <<"(", "1", "+", "(", "3", "*", "5", ")", ")">>

\* C2: parse() reaches its end for every token sequence: no chain of
\* parseExpression / parsePrefixExpression / parseGroupedExpression calls
\* keeps nesting (until the interpreter stops it) once advance is a no-op.
C2_NoRunawayRecursion == crash # "RecursionError"

\* the first statement is a type keyword followed by an identifier
DeclarationCase ==
    /\ FirstIteration
    /\ Len(tokens) >= 2
    /\ tokens[1].tk_type \in LangTypes
    /\ tokens[2].tk_type = "tk_identifier"

\* C3: a type keyword and a name not followed by an assignment operator
\* (the name may be the last token) give a declaration with that type, that
\* name and no initializer.
C3_UninitializedDeclaration ==
    (DeclarationCase /\ (Len(tokens) = 2 \/ tokens[3].tk_type # "tk_assign")) =>
        /\ status # "crashed"
        /\ parsed = <<VariableDeclaration(tokens[1], tokens[2].keyword, NoNode)>>

\* the first statement is an identifier followed by a token other than an
\* assignment operator, and the expression starting there parses
ExpressionStatementCase ==
    /\ FirstIteration
    /\ Len(tokens) >= 2
    /\ tokens[1].tk_type = "tk_identifier"
    /\ tokens[2].tk_type # "tk_assign"
    /\ ParseExpression(tokens, call.before, pr_lowest, 3).crash = "none"

\* C4: an identifier not followed by an assignment operator is parsed as an
\* expression statement: parseStatement returns the node of
\* parseExpression(pr_lowest) and consumes nothing beyond that expression.
C4_ExpressionStatement ==
    ExpressionStatementCase =>
        LET e == ParseExpression(tokens, call.before, pr_lowest, 3) IN
        /\ status # "crashed"
        /\ parsed = <<e.node>>
        /\ tk_index = Advance(tokens, e.p).tk_index

\* tokens that cannot start a primary expression
CannotStart(t) == t.tk_type \in {"tk_r_paren", "tk_if", "tk_assign"}
\* the tokens are one expression statement: an identifier, then operators of
\* precedenceMap alternating with operands, each operand a one-token primary
\* or a token that cannot start one
OperandErrorCase ==
    /\ Len(tokens) >= 3
    /\ Len(tokens) % 2 = 1
    /\ tokens[1].tk_type = "tk_identifier"
    /\ \A i \in 2..Len(tokens) :
          IF i % 2 = 0
          THEN IsOperator(tokens[i])
          ELSE IsPrimary(tokens[i]) \/ CannotStart(tokens[i])
OperandErrors == {i \in 2..Len(tokens) : i % 2 = 1 /\ CannotStart(tokens[i])}

\* C5: a run over an expression statement with k operands that cannot start
\* a primary ends with exactly k diagnostics, and is reported as failed
\* (exit(1)) when k > 0.
C5_ErrorAccumulation ==
    (Ended /\ OperandErrorCase) =>
        /\ Len(errors) = Cardinality(OperandErrors)
        /\ (OperandErrors # {} => status = "exited")

\* C6: expect(type) with a next token of another type, or none, records a
\* diagnostic; so does a declaration whose type keyword is not followed by
\* an identifier.
C6_ExpectRecordsDiagnostic ==
    /\ (/\ call.op = "expect"
        /\ NextToken(tokens, call.before).tk_type # call.arg)
           => Len(errors) > 0
    /\ (/\ call.op = "parseStatement"
        /\ call.before.current_token.tk_type \in LangTypes
        /\ NextToken(tokens, call.before).tk_type # "tk_identifier")
           => Len(errors) > 0

\* what advance() makes of the cursor `before`
AdvancedFrom(before) ==
    IF before.tk_index < Len(tokens)
    THEN /\ tk_index = before.tk_index + 1
         /\ current_token = tokens[before.tk_index + 1]
    ELSE /\ tk_index = before.tk_index
         /\ current_token = before.current_token

\* C7: 0 <= tk_index <= len(tokens) in every state; advance below the end
\* moves onto tokens[tk_index] and adds one to tk_index; advance at the end
\* changes neither; no operation on a Parser decreases tk_index.
C7_CursorLaw ==
    /\ 0 <= tk_index /\ tk_index <= Len(tokens)
    /\ call.op \in {"advance", "__init__"} => AdvancedFrom(call.before)
    /\ call.op # "none" => tk_index >= call.before.tk_index

\* advance has been called with the cursor at the end of three tokens or more
C7_Witness ==
    /\ call.op = "advance"
    /\ Len(tokens) >= 3
    /\ call.before.tk_index = Len(tokens)
    /\ tk_index = Len(tokens)
    /\ current_token = tokens[Len(tokens)]

Reserved == {"tk_if", "tk_while", "tk_for", "tk_match", "tk_def", "tk_ccode"}

\* C8: a reserved keyword at statement position leaves a diagnostic and no
\* crash, and no absent (None) node is ever appended to Program.nodes.
C8_ReservedRejected ==
    /\ \A i \in 1..Len(Program_nodes) : Program_nodes[i] # NoNode
    /\ (/\ call.op = "parse.iteration"
        /\ call.before.current_token.tk_type \in Reserved)
           => (Len(errors) > 0 /\ status # "crashed")

\* C9: the Program a run returns holds exactly the nodes that run parsed,
\* and a new Parser starts with no diagnostics.
C9_RunsIsolated ==
    /\ status = "returned" => Program_nodes = parsed
    /\ call.op = "__init__" => errors = <<>>

\* C10: parse dispatches a statement at every token no earlier statement
\* consumed: the Program returned for a sequence that is one primary token
\* has exactly one node.
C10_NoTokenDropped ==
    (status = "returned" /\ Len(tokens) = 1 /\ IsPrimary(tokens[1]))
        => Len(parsed) = 1

====
